---- MODULE Spec2Model ----
(***************************************************************************)
(* BasicSerializer: a fixed-capacity write cursor (Serializer) and read    *)
(* cursor (Deserializer) over one caller-owned byte buffer, with the       *)
(* SerializerReference handle that Serializer::skip returns.               *)
(*                                                                         *)
(* The model follows the first (current) variant of BasicSerializer.hpp.   *)
(* Bytes are numbers 0..255, values are stored in the host's little-endian *)
(* representation, and every size_t expression is reduced modulo SizeTMod. *)
(*                                                                         *)
(* Accesses outside the arrays a call was given are undefined behaviour:   *)
(*  - a load from outside the buffer yields an arbitrary byte (drawn from  *)
(*    Junk) and is recorded in ret.oob; the call goes on as compiled;      *)
(*  - a store outside the buffer or outside out_string corrupts objects    *)
(*    the source does not name; it is recorded in ret.overrun and the      *)
(*    behaviour is not followed past that store (no later call is taken).  *)
(***************************************************************************)
EXTENDS Integers, Sequences, FiniteSets, TLC

\* ------------------------------------------------------------------------
\* Sizes and widths
\* ------------------------------------------------------------------------

\* tc_bufferSize of the sketch's Serializer<bufferSize> / Deserializer<bufferSize>
tc_bufferSize == 8

\* sizeof(size_t) in bytes on the modelled target (a 16-bit size_t)
SizeTBytes == 2

\* number of values of size_t: arithmetic on size_t wraps at this modulus
SizeTMod == 256 ^ SizeTBytes

\* largest SerializerReference count the caller keeps alive at once
MaxRefs == 1

\* longest call sequence followed
MaxCalls == 4

\* the arithmetic types used with write<Type>, skip<Type>, read<Type>
Types == {"uint8_t", "uint16_t", "uint32_t"}

\* the types accepted as SizeType of the string operations
SizeTypes == {"uint8_t", "size_t"}

sizeof(T) ==
  CASE T = "uint8_t"  -> 1
    [] T = "uint16_t" -> 2
    [] T = "uint32_t" -> 4
    [] T = "size_t"   -> SizeTBytes

\* number of values of an unsigned type of at most 3 bytes
TypeMod(T) == 256 ^ sizeof(T)

\* size_t addition
AddSizeT(a, b) == (a + b) % SizeTMod

Indices == 0 .. (tc_bufferSize - 1)

\* ------------------------------------------------------------------------
\* Memory representation of values
\* ------------------------------------------------------------------------

\* the k bytes of the in-memory representation of v (little-endian host)
Bytes_LowFirstOnly(v, k) == [i \in 0 .. (k - 1) |-> IF i = 0 THEN v % 256 ELSE 0]

Bytes(v, k) == [i \in 0 .. (k - 1) |-> (v \div (256 ^ i)) % 256]

RECURSIVE ValueOf(_, _)
\* the value whose in-memory representation is the k bytes bs[0..k-1]
ValueOf(bs, k) ==
  IF k = 0 THEN 0 ELSE ValueOf(bs, k - 1) + bs[k - 1] * (256 ^ (k - 1))

\* the store made through a pointer to a type one byte wider than Type
Store_OneMore(buf, at, v, k) ==
  [i \in Indices |->
     IF at <= i /\ i < at + k THEN Bytes(v, k)[i - at]
     ELSE IF i = at + k THEN 0
     ELSE buf[i]]

\* *reinterpret_cast<Type*>(m_begin + at) = v, for a slot inside the buffer
Store(buf, at, v, k) ==
  [i \in Indices |-> IF at <= i /\ i < at + k THEN Bytes(v, k)[i - at] ELSE buf[i]]

\* the byte at m_begin[i]; a byte outside the buffer is whatever lies there
Mem(buf, i, beyond) == IF i \in Indices THEN buf[i] ELSE beyond

\* *reinterpret_cast<const Type*>(m_begin + at)
Load(buf, at, k, beyond) ==
  ValueOf([i \in 0 .. (k - 1) |-> Mem(buf, at + i, beyond)], k)

\* the byte in_string[i]; past the end of the array it is whatever lies there
SrcByte(s, i, beyond) == IF i < Len(s) THEN s[i + 1] ELSE beyond

\* std::memcpy(m_begin + at, in_string, n), restricted to the buffer
CopyIn(buf, at, s, n, beyond) ==
  [i \in Indices |->
     IF at <= i /\ i < at + n THEN SrcByte(s, i - at, beyond) ELSE buf[i]]

\* ------------------------------------------------------------------------
\* State
\* ------------------------------------------------------------------------

VARIABLES
  buffer,      \* the caller-owned array behind m_begin (std::array<uint8_t, bufferSize>)
  ser,         \* the Serializer object: m_cursor, m_status
  des,         \* the Deserializer object: m_cursor, m_status
  refs,        \* the SerializerReference handles the caller holds
  call,        \* the call made last: operation and arguments
  ret,         \* what that call returned
  out_string,  \* the caller's destination array of the last readStr
  written,     \* the fields stored by the Serializer since its last reset
  nread,       \* how many of them the Deserializer has read back
  ncalls       \* how many calls the caller has made

vars == <<buffer, ser, des, refs, call, ret, out_string, written, nread, ncalls>>

\* tl::expected holding a value
Expected(v) ==
  [ok |-> TRUE, val |-> v, err |-> "success", oob |-> FALSE, overrun |-> FALSE]

\* tl::expected holding a value, o: the call loaded bytes from outside the buffer
ExpectedOob(v, o) ==
  [ok |-> TRUE, val |-> v, err |-> "success", oob |-> o, overrun |-> FALSE]

\* tl::make_unexpected(in_error)
Unexpected(e) ==
  [ok |-> FALSE, val |-> 0, err |-> e, oob |-> FALSE, overrun |-> FALSE]

\* the call stored bytes outside the array it was given: the source defines no
\* behaviour from that store on, the call is not followed to a return
Overrun ==
  [ok |-> FALSE, val |-> 0, err |-> "none", oob |-> FALSE, overrun |-> TRUE]

\* the call returned an error
ReturnedError(r) == ~r.ok /\ ~r.overrun

\* a call: operation, type argument, numeric argument, string argument, and for
\* the calls of the Deserializer the predicate or destination argument
Call(op, T, v, s) == [op |-> op, T |-> T, v |-> v, s |-> s, f |-> "none"]

CallF(op, T, v, f) == [op |-> op, T |-> T, v |-> v, s |-> <<>>, f |-> f]

\* ------------------------------------------------------------------------
\* SerializerReference
\* ------------------------------------------------------------------------

\* SerializerReference(Type* in_element)
SerializerReference(at, T) == [m_element |-> at, T |-> T]

\* SerializerReference::write: *m_element = in_value
SerializerReference_write_NextSlot(ref, buf, v) ==
  Store(buf, ref.m_element + 1, v, sizeof(ref.T))

SerializerReference_write(ref, buf, v) ==
  Store(buf, ref.m_element, v, sizeof(ref.T))

\* SerializerReference::read: return *m_element
SerializerReference_read(ref, buf) ==
  Load(buf, ref.m_element, sizeof(ref.T), 0)

\* ------------------------------------------------------------------------
\* Serializer
\* ------------------------------------------------------------------------

\* Serializer::error: m_status = in_error
Serializer_error(self, e) == [self EXCEPT !.m_status = e]

\* reset() clearing the status only
Serializer_reset_KeepCursor(self) == [self EXCEPT !.m_status = "success"]

\* Serializer::reset
Serializer_reset(self) == [m_cursor |-> 0, m_status |-> "success"]

\* Serializer::resetStatus
Serializer_resetStatus(self) == [self EXCEPT !.m_status = "success"]

\* Serializer::getBytesWritten
getBytesWritten(self) == self.m_cursor

\* Serializer::getBytesLeft: tc_bufferSize - m_cursor, in size_t
getBytesLeft(self) == (tc_bufferSize - self.m_cursor) % SizeTMod

\* Serializer::fitsInBuffer(size_t in_size)
Serializer_fitsInBuffer(self, in_size) ==
  AddSizeT(self.m_cursor, in_size) <= tc_bufferSize

\* the test `m_cursor + sizeof(Type) > tc_bufferSize` of skip, write, writeEnum
OutOfRange_OffByOne(cursor, size) == AddSizeT(cursor, size) > tc_bufferSize + 1

OutOfRange(cursor, size) == AddSizeT(cursor, size) > tc_bufferSize

\* Serializer::skip<Type>
Serializer_skip(self, buf, T) ==
  IF OutOfRange(self.m_cursor, sizeof(T))
  THEN [self |-> Serializer_error(self, "writeOutOfRange"), buf |-> buf,
        ret |-> Unexpected("writeOutOfRange")]
  ELSE [self |-> [self EXCEPT !.m_cursor = AddSizeT(self.m_cursor, sizeof(T))],
        buf |-> buf,
        ret |-> Expected(self.m_cursor)]

\* Serializer::write<Type>
Serializer_write(self, buf, T, in_value) ==
  IF OutOfRange(self.m_cursor, sizeof(T))
  THEN [self |-> Serializer_error(self, "writeOutOfRange"), buf |-> buf,
        ret |-> Unexpected("writeOutOfRange")]
  ELSE LET c == AddSizeT(self.m_cursor, sizeof(T))
       IN  [self |-> [self EXCEPT !.m_cursor = c],
            buf |-> Store(buf, self.m_cursor, in_value, sizeof(T)),
            ret |-> Expected(c)]

\* the enum types of the callers and std::underlying_type of each
Enums == {"Enum8"}

underlying_type(E) == "uint8_t"

\* Serializer::writeEnum<Type>
Serializer_writeEnum(self, buf, E, in_value) ==
  IF OutOfRange(self.m_cursor, sizeof(underlying_type(E)))
  THEN [self |-> Serializer_error(self, "writeOutOfRange"), buf |-> buf,
        ret |-> Unexpected("writeOutOfRange")]
  ELSE LET c == AddSizeT(self.m_cursor, sizeof(underlying_type(E)))
       IN  [self |-> [self EXCEPT !.m_cursor = c],
            buf |-> Store(buf, self.m_cursor, in_value, sizeof(underlying_type(E))),
            ret |-> Expected(c)]

\* Serializer::writeStr<SizeType>(const char* in_string, SizeType in_size), written
\* with the prefix stored before the range of the payload is checked
Serializer_writeStr_PrefixFirst(self, buf, ST, in_string, in_size, beyond) ==
  LET w == Serializer_write(self, buf, ST, in_size)
  IN  IF ~w.ret.ok \/ AddSizeT(w.self.m_cursor, in_size) > tc_bufferSize
      THEN [self |-> Serializer_error(self, "writeStringOutOfRange"), buf |-> w.buf,
            ret |-> Unexpected("writeStringOutOfRange")]
      ELSE [self |-> [w.self EXCEPT !.m_cursor = AddSizeT(w.self.m_cursor, in_size)],
            buf |-> CopyIn(w.buf, w.self.m_cursor, in_string, in_size, beyond),
            ret |-> Expected(AddSizeT(w.self.m_cursor, in_size))]

\* Serializer::writeStr<SizeType>(const char* in_string, SizeType in_size)
Serializer_writeStr(self, buf, ST, in_string, in_size, beyond) ==
  IF AddSizeT(AddSizeT(self.m_cursor, sizeof(ST)), in_size) > tc_bufferSize
  THEN [self |-> Serializer_error(self, "writeStringOutOfRange"), buf |-> buf,
        ret |-> Unexpected("writeStringOutOfRange")]
  ELSE LET w == Serializer_write(self, buf, ST, in_size)
       IN  IF ~w.ret.ok
           THEN [self |-> Serializer_error(w.self, "writeStringSizeOutOfRange"),
                 buf |-> w.buf,
                 ret |-> Unexpected("writeStringSizeOutOfRange")]
           ELSE IF w.self.m_cursor + in_size > tc_bufferSize
           THEN \* std::memcpy runs past the end of the buffer
                [self |-> w.self,
                 buf |-> CopyIn(w.buf, w.self.m_cursor, in_string, in_size, beyond),
                 ret |-> Overrun]
           ELSE LET c == AddSizeT(w.self.m_cursor, in_size)
                IN  [self |-> [w.self EXCEPT !.m_cursor = c],
                     buf |-> CopyIn(w.buf, w.self.m_cursor, in_string, in_size, beyond),
                     ret |-> Expected(c)]

\* Serializer::writeStr<SizeType>(const String& in_string): in_string.length()
\* is converted to SizeType, c_str() ends in a terminator
Serializer_writeStrString(self, buf, ST, in_string) ==
  Serializer_writeStr(self, buf, ST, in_string, Len(in_string) % TypeMod(ST), 0)

\* ------------------------------------------------------------------------
\* Deserializer
\* ------------------------------------------------------------------------

\* Deserializer::error: m_status = in_error
Deserializer_error(self, e) == [self EXCEPT !.m_status = e]

\* Deserializer::reset
Deserializer_reset(self) == [m_cursor |-> 0, m_status |-> "success"]

\* Deserializer::resetStatus
Deserializer_resetStatus(self) == [self EXCEPT !.m_status = "success"]

\* Deserializer::getBytesRead
getBytesRead(self) == self.m_cursor

\* Deserializer::fitsInBuffer(size_t in_size)
Deserializer_fitsInBuffer(self, in_size) ==
  AddSizeT(self.m_cursor, in_size) <= tc_bufferSize

\* skip<Type> returning the new offset without storing it in m_cursor
Deserializer_skip_NoAdvance(self, T) ==
  IF OutOfRange(self.m_cursor, sizeof(T))
  THEN [self |-> Deserializer_error(self, "readOutOfRange"),
        ret |-> Unexpected("readOutOfRange")]
  ELSE [self |-> self, ret |-> Expected(AddSizeT(self.m_cursor, sizeof(T)))]

\* Deserializer::skip<Type>
Deserializer_skip(self, T) ==
  IF OutOfRange(self.m_cursor, sizeof(T))
  THEN [self |-> Deserializer_error(self, "readOutOfRange"),
        ret |-> Unexpected("readOutOfRange")]
  ELSE LET c == AddSizeT(self.m_cursor, sizeof(T))
       IN  [self |-> [self EXCEPT !.m_cursor = c], ret |-> Expected(c)]

\* Deserializer::read<Type>
Deserializer_read(self, buf, T) ==
  IF OutOfRange(self.m_cursor, sizeof(T))
  THEN [self |-> Deserializer_error(self, "readOutOfRange"),
        ret |-> Unexpected("readOutOfRange")]
  ELSE [self |-> [self EXCEPT !.m_cursor = AddSizeT(self.m_cursor, sizeof(T))],
        ret |-> Expected(Load(buf, self.m_cursor, sizeof(T), 0))]

\* the fun_isEnumValue arguments: no function, or one accepting no value,
\* the values up to 8, or every value
Predicates == {"nullptr", "none", "upTo8", "all"}

\* fun_isEnumValue(value)
fun_isEnumValue(f, value) ==
  CASE f = "none"  -> FALSE
    [] f = "upTo8" -> value <= 8
    [] f = "all"   -> TRUE

\* readEnum with the cursor moved before the value is validated
Deserializer_readEnum_AdvanceFirst(self, buf, E, f, beyond) ==
  LET k == sizeof(underlying_type(E))
      moved == [self EXCEPT !.m_cursor = AddSizeT(self.m_cursor, k)]
  IN  IF f = "nullptr"
      THEN [self |-> Deserializer_error(self, "readIsEnumFunIsNullptr"),
            ret |-> Unexpected("readIsEnumFunIsNullptr")]
      ELSE IF ~fun_isEnumValue(f, Load(buf, self.m_cursor, k, beyond))
      THEN [self |-> Deserializer_error(moved, "readIsEnumFunFalse"),
            ret |-> Unexpected("readIsEnumFunFalse")]
      ELSE [self |-> moved,
            ret |-> ExpectedOob(Load(buf, self.m_cursor, k, beyond),
                                self.m_cursor + k > tc_bufferSize)]

\* Deserializer::readEnum<Type, UnderlyingType>
Deserializer_readEnum(self, buf, E, f, beyond) ==
  LET k == sizeof(underlying_type(E))
  IN  IF f = "nullptr"
      THEN [self |-> Deserializer_error(self, "readIsEnumFunIsNullptr"),
            ret |-> Unexpected("readIsEnumFunIsNullptr")]
      ELSE LET \* line 350 records the error and goes on
               s1 == IF OutOfRange(self.m_cursor, k)
                     THEN Deserializer_error(self, "readOutOfRange")
                     ELSE self
               value == Load(buf, self.m_cursor, k, beyond)
           IN  IF ~fun_isEnumValue(f, value)
               THEN [self |-> Deserializer_error(s1, "readIsEnumFunFalse"),
                     ret |-> Unexpected("readIsEnumFunFalse")]
               ELSE [self |-> [s1 EXCEPT !.m_cursor = AddSizeT(self.m_cursor, k)],
                     ret |-> ExpectedOob(value, self.m_cursor + k > tc_bufferSize)]

\* the copy taken from the size prefix on instead of from the payload
CopyOut_FromPrefix(buf, at, n, beyond) ==
  [i \in 1 .. (IF n <= tc_bufferSize THEN n ELSE tc_bufferSize + 1) |->
     Mem(buf, at + i - 2, beyond)]

\* the bytes std::memcpy(out_string, m_begin + at, n) copies; the model keeps
\* the first tc_bufferSize + 1 of them
CopyOut(buf, at, n, beyond) ==
  [i \in 1 .. (IF n <= tc_bufferSize THEN n ELSE tc_bufferSize + 1) |->
     Mem(buf, at + i - 1, beyond)]

\* the destination after a readStr: the bytes copied, the index that holds
\* the terminator (-1: none stored) and whether a byte was stored at or past
\* out_string[in_maxStringSize]
Out(bytes, nul, over) == [bytes |-> bytes, nul |-> nul, over |-> over]

NoOut == Out(<<>>, -1, FALSE)

\* stringBufferSize of the sketch: the chars of its largest destination array
stringBufferSize == 20

\* the chars of the array behind out_string: in_maxStringSize, as far as the
\* caller's memory goes
OutLen(in_maxStringSize) ==
  IF in_maxStringSize <= stringBufferSize THEN in_maxStringSize ELSE stringBufferSize

\* the line 367: value < in_maxStringSize ? value : in_maxStringSize - 1
ClampPtr(ST, value, in_maxStringSize) ==
  IF value < in_maxStringSize THEN value ELSE (in_maxStringSize - 1) % TypeMod(ST)

\* the line 383: value <= in_maxStringSize ? value : in_maxStringSize - 1
ClampString(ST, value, in_maxStringSize) ==
  IF value <= in_maxStringSize THEN value ELSE (in_maxStringSize - 1) % TypeMod(ST)

\* readStr with out_string terminated before the arguments are checked
Deserializer_readStr_TerminateFirst(self, buf, ST, in_maxStringSize, out, beyond) ==
  IF out = "nullptr"
  THEN [self |-> Deserializer_error(self, "readStringOutIsNullptr"),
        ret |-> Unexpected("readStringOutIsNullptr"), out |-> NoOut]
  ELSE IF AddSizeT(AddSizeT(self.m_cursor, sizeof(ST)), in_maxStringSize) > tc_bufferSize
  THEN [self |-> Deserializer_error(self, "readStringOutOfRange"),
        ret |-> Unexpected("readStringOutOfRange"), out |-> Out(<<>>, 0, FALSE)]
  ELSE LET sizeElement == Deserializer_read(self, buf, ST)
       IN  IF ~sizeElement.ret.ok
           THEN [self |-> Deserializer_error(sizeElement.self, "readStringSizeOutOfRange"),
                 ret |-> Unexpected("readStringSizeOutOfRange"),
                 out |-> Out(<<>>, 0, FALSE)]
           ELSE LET size == ClampPtr(ST, sizeElement.ret.val, in_maxStringSize)
                    at == sizeElement.self.m_cursor
                IN  IF size >= OutLen(in_maxStringSize)
                    THEN [self |-> sizeElement.self,
                          ret |-> Overrun,
                          out |-> Out(CopyOut(buf, at, size, beyond), size, TRUE)]
                    ELSE [self |-> [sizeElement.self EXCEPT
                                      !.m_cursor = AddSizeT(at, size)],
                          ret |-> ExpectedOob(size, at + size > tc_bufferSize),
                          out |-> Out(CopyOut(buf, at, size, beyond), size, FALSE)]

\* Deserializer::readStr<SizeType>(SizeType in_maxStringSize, char* out_string)
Deserializer_readStr(self, buf, ST, in_maxStringSize, out, beyond) ==
  IF out = "nullptr"
  THEN [self |-> Deserializer_error(self, "readStringOutIsNullptr"),
        ret |-> Unexpected("readStringOutIsNullptr"), out |-> NoOut]
  ELSE IF AddSizeT(AddSizeT(self.m_cursor, sizeof(ST)), in_maxStringSize) > tc_bufferSize
  THEN [self |-> Deserializer_error(self, "readStringOutOfRange"),
        ret |-> Unexpected("readStringOutOfRange"), out |-> NoOut]
  ELSE LET sizeElement == Deserializer_read(self, buf, ST)
       IN  IF ~sizeElement.ret.ok
           THEN [self |-> Deserializer_error(sizeElement.self, "readStringSizeOutOfRange"),
                 ret |-> Unexpected("readStringSizeOutOfRange"), out |-> NoOut]
           ELSE LET size == ClampPtr(ST, sizeElement.ret.val, in_maxStringSize)
                    at == sizeElement.self.m_cursor
                IN  IF size >= OutLen(in_maxStringSize)
                    THEN \* out_string[size] lies past the end of the array
                         [self |-> sizeElement.self,
                          ret |-> Overrun,
                          out |-> Out(CopyOut(buf, at, size, beyond), size, TRUE)]
                    ELSE [self |-> [sizeElement.self EXCEPT
                                      !.m_cursor = AddSizeT(at, size)],
                          ret |-> ExpectedOob(size, at + size > tc_bufferSize),
                          out |-> Out(CopyOut(buf, at, size, beyond), size, FALSE)]

\* Deserializer::readStr<SizeType>(SizeType in_maxStringSize), returning a String
Deserializer_readStrString(self, buf, ST, in_maxStringSize, beyond) ==
  IF AddSizeT(AddSizeT(self.m_cursor, sizeof(ST)), in_maxStringSize) > tc_bufferSize
  THEN [self |-> Deserializer_error(self, "readStringOutOfRange"),
        ret |-> Unexpected("readStringOutOfRange"), out |-> NoOut]
  ELSE LET sizeElement == Deserializer_read(self, buf, ST)
       IN  IF ~sizeElement.ret.ok
           THEN [self |-> Deserializer_error(sizeElement.self, "readStringSizeOutOfRange"),
                 ret |-> Unexpected("readStringSizeOutOfRange"), out |-> NoOut]
           ELSE LET size == ClampString(ST, sizeElement.ret.val, in_maxStringSize)
                    at == sizeElement.self.m_cursor
                IN  [self |-> [sizeElement.self EXCEPT !.m_cursor = AddSizeT(at, size)],
                     ret |-> ExpectedOob(size, at + size > tc_bufferSize),
                     out |-> Out(CopyOut(buf, at, size, beyond), -1, FALSE)]

\* ------------------------------------------------------------------------
\* The handle-returning variant of the header (its second version)
\* ------------------------------------------------------------------------

\* SerializerReference(): m_element(nullptr)
NullableReference_null(T) == [isNull |-> TRUE, m_element |-> 0, T |-> T]

\* SerializerReference(Type* in_element)
NullableReference(at, T) == [isNull |-> FALSE, m_element |-> at, T |-> T]

\* SerializerReference::isNull
NullableReference_isNull(ref) == ref.isNull

\* SerializerReference::read
NullableReference_read(ref, buf) ==
  IF ref.isNull THEN 0 ELSE Load(buf, ref.m_element, sizeof(ref.T), 0)

\* write(in_value) reporting true also for a null reference
NullableReference_write_AlwaysTrue(ref, buf, v) ==
  [buf |-> IF ref.isNull THEN buf ELSE Store(buf, ref.m_element, v, sizeof(ref.T)),
   ret |-> TRUE]

\* SerializerReference::write
NullableReference_write(ref, buf, v) ==
  IF ref.isNull
  THEN [buf |-> buf, ret |-> FALSE]
  ELSE [buf |-> Store(buf, ref.m_element, v, sizeof(ref.T)), ret |-> TRUE]

\* Serializer::skip<Type> returning a handle
Serializer_skipHandle(self, T) ==
  IF OutOfRange(self.m_cursor, sizeof(T))
  THEN [self |-> [self EXCEPT !.m_status = "writeOutOfRange"],
        ref |-> NullableReference_null(T)]
  ELSE [self |-> [self EXCEPT !.m_cursor = AddSizeT(self.m_cursor, sizeof(T))],
        ref |-> NullableReference(self.m_cursor, T)]

\* DeserializerReference(): m_element(nullptr)
DeserializerReference_null(T) == [isNull |-> TRUE, m_element |-> 0, T |-> T]

\* DeserializerReference(const Type* in_element)
DeserializerReference(at, T) == [isNull |-> FALSE, m_element |-> at, T |-> T]

\* DeserializerReference::read
DeserializerReference_read(ref, buf) ==
  IF ref.isNull THEN 0 ELSE Load(buf, ref.m_element, sizeof(ref.T), 0)

\* Deserializer::view<Type>
Deserializer_view(self, T) ==
  IF OutOfRange(self.m_cursor, sizeof(T))
  THEN [self |-> [self EXCEPT !.m_status = "viewOutOfRange"],
        ref |-> DeserializerReference_null(T)]
  ELSE [self |-> [self EXCEPT !.m_cursor = AddSizeT(self.m_cursor, sizeof(T))],
        ref |-> DeserializerReference(self.m_cursor, T)]

\* a handle as the result of a call: a null handle stands for the failure
Handle(ref) ==
  [ok |-> ~ref.isNull, val |-> ref.m_element, err |-> "none",
   oob |-> FALSE, overrun |-> FALSE]

\* ------------------------------------------------------------------------
\* Inputs of the calls
\* ------------------------------------------------------------------------

\* in_value arguments by type (8, 1024 and 32 are the sketch's values)
Values(T) ==
  CASE T = "uint8_t"  -> {8}
    [] T = "uint16_t" -> {1024, 513}
    [] T = "uint32_t" -> {32}
    [] T = "size_t"   -> {3}

\* in_string arguments: "", "Ha"
Strings == {<<>>, <<72, 97>>}

\* in_size arguments: the length of in_string, and for SizeType = size_t also
\* the sizes for which m_cursor + sizeof(SizeType) + in_size passes SizeTMod
Sizes(ST, s) ==
  IF ST = "size_t" THEN {Len(s), SizeTMod - 1, SizeTMod - 3} ELSE {Len(s)}

\* what a byte outside the arrays may hold
Junk == {0, 85}

\* the bytes a copy of n bytes out of in_string may find past its end
Beyond(s, n) == IF n > Len(s) THEN Junk ELSE {0}

\* the buffer at construction: the zero-initialised global array of the
\* sketch, or an array the caller has used before
InitialBuffers == {[i \in Indices |-> 0], [i \in Indices |-> 85]}

NoCall == Call("none", "none", 0, <<>>)

Init ==
  /\ buffer \in InitialBuffers
  /\ ser = [m_cursor |-> 0, m_status |-> "success"]
  /\ des = [m_cursor |-> 0, m_status |-> "success"]
  /\ refs = <<>>
  /\ call = NoCall
  /\ ret = Expected(0)
  /\ out_string = NoOut
  /\ written = <<>>
  /\ nread = 0
  /\ ncalls = 0

\* the program is running: no call has stored outside its arrays
Running == ~ret.overrun

\* one more call of the caller's sequence
Counted == Running /\ ncalls < MaxCalls /\ ncalls' = ncalls + 1

\* ------------------------------------------------------------------------
\* Calls on the Serializer and on its references
\* ------------------------------------------------------------------------

\* the caller keeps the handle of a skip, in place of its oldest one when it
\* holds MaxRefs already (fresh: obtained since the last reset)
Keep(rs, r) == IF Len(rs) < MaxRefs THEN Append(rs, r) ELSE Append(Tail(rs), r)

DoSkip(T) ==
  LET r == Serializer_skip(ser, buffer, T)
  IN  /\ ser' = r.self
      /\ buffer' = r.buf
      /\ ret' = r.ret
      /\ call' = Call("skip", T, 0, <<>>)
      /\ refs' = IF r.ret.ok
                 THEN Keep(refs, [ref |-> SerializerReference(r.ret.val, T),
                                  fresh |-> TRUE, field |-> Len(written) + 1])
                 ELSE refs
      /\ UNCHANGED <<des, out_string>>

DoWrite(T, v) ==
  LET r == Serializer_write(ser, buffer, T, v)
  IN  /\ ser' = r.self
      /\ buffer' = r.buf
      /\ ret' = r.ret
      /\ call' = Call("write", T, v, <<>>)
      /\ UNCHANGED <<des, refs, out_string>>

DoRefWrite(k, v) ==
  /\ buffer' = SerializerReference_write(refs[k].ref, buffer, v)
  /\ ret' = Expected(0)
  /\ call' = Call("ref.write", refs[k].ref.T, v, <<k>>)
  /\ UNCHANGED <<ser, des, refs, out_string>>

Ser_skip ==
  \E T \in Types :
    DoSkip(T) /\ UNCHANGED <<written, nread>>

Ser_write ==
  \E T \in Types : \E v \in Values(T) :
    DoWrite(T, v) /\ UNCHANGED <<written, nread>>

Ser_writeEnum ==
  \E E \in Enums : \E v \in Values(underlying_type(E)) :
    LET r == Serializer_writeEnum(ser, buffer, E, v)
    IN  /\ ser' = r.self
        /\ buffer' = r.buf
        /\ ret' = r.ret
        /\ call' = Call("writeEnum", underlying_type(E), v, <<>>)
        /\ UNCHANGED <<des, refs, out_string, written, nread>>

Ser_writeStr ==
  \E ST \in SizeTypes, s \in Strings : \E n \in Sizes(ST, s) :
  \E beyond \in Beyond(s, n) :
    LET r == Serializer_writeStr(ser, buffer, ST, s, n, beyond)
    IN  /\ ser' = r.self
        /\ buffer' = r.buf
        /\ ret' = r.ret
        /\ call' = Call("writeStr", ST, n, s)
        /\ UNCHANGED <<des, refs, out_string, written, nread>>

Ser_refWrite ==
  \E k \in DOMAIN refs : \E v \in Values(refs[k].ref.T) :
    DoRefWrite(k, v) /\ UNCHANGED <<written, nread>>

Ser_reset ==
  /\ ser' = Serializer_reset(ser)
  /\ refs' = [k \in DOMAIN refs |-> [refs[k] EXCEPT !.fresh = FALSE]]
  /\ ret' = Expected(0)
  /\ call' = Call("reset", "none", 0, <<>>)
  /\ UNCHANGED <<buffer, des, out_string, written, nread>>

Ser_resetStatus ==
  /\ ser' = Serializer_resetStatus(ser)
  /\ ret' = Expected(0)
  /\ call' = Call("resetStatus", "none", 0, <<>>)
  /\ UNCHANGED <<buffer, des, refs, out_string, written, nread>>

\* in_size arguments of fitsInBuffer: sizes around the capacity, and sizes for
\* which m_cursor + in_size passes SizeTMod
FitSizes == {0, 1, tc_bufferSize, tc_bufferSize + 1, SizeTMod - 1, SizeTMod - tc_bufferSize}

Ser_fitsInBuffer ==
  \E in_size \in FitSizes :
    /\ ret' = Expected(IF Serializer_fitsInBuffer(ser, in_size) THEN 1 ELSE 0)
    /\ call' = Call("Serializer::fitsInBuffer", "size_t", in_size, <<>>)
    /\ UNCHANGED <<buffer, ser, des, refs, out_string, written, nread>>

NextSer ==
  \/ Counted /\ Ser_skip
  \/ Counted /\ Ser_write
  \/ Counted /\ Ser_writeEnum
  \/ Counted /\ Ser_writeStr
  \/ Counted /\ Ser_refWrite
  \/ Counted /\ Ser_reset
  \/ Counted /\ Ser_resetStatus
  \/ Counted /\ Ser_fitsInBuffer

\* every call sequence on one Serializer and the handles it gave out
SpecSer == Init /\ [][NextSer]_vars

\* ------------------------------------------------------------------------
\* Calls on the Deserializer
\* ------------------------------------------------------------------------

\* in_maxStringSize arguments: small sizes, and for SizeType = size_t also
\* the largest one
MaxSizes(ST) == IF ST = "size_t" THEN {0, 1, 3, 6, SizeTMod - 1} ELSE {0, 1, 3, 6}

\* out_string arguments: no array, or an array of OutLen(in_maxStringSize) chars
Destinations == {"nullptr", "array"}

\* what the bytes past the buffer may hold when a call reads k bytes at the cursor
BeyondRead(k) == IF des.m_cursor + k > tc_bufferSize THEN Junk ELSE {0}

Image(bs) == [i \in Indices |-> bs[i + 1]]

\* buffers received for decoding: the sketch's message (8, 1024, 32), a string
\* of 5 chars behind a uint8_t prefix followed by two bytes, a string of 2
\* chars behind a size_t prefix followed by a string behind a uint8_t prefix,
\* and a buffer that holds no message
ReceivedBuffers ==
  { Image(<<8, 0, 4, 32, 0, 0, 0, 0>>),
    Image(<<5, 72, 97, 108, 118, 111, 9, 1>>),
    Image(<<2, 0, 72, 97, 1, 72, 0, 0>>),
    Image(<<85, 85, 85, 85, 85, 85, 85, 85>>) }

InitDes ==
  /\ buffer \in ReceivedBuffers
  /\ ser = [m_cursor |-> 0, m_status |-> "success"]
  /\ des = [m_cursor |-> 0, m_status |-> "success"]
  /\ refs = <<>>
  /\ call = NoCall
  /\ ret = Expected(0)
  /\ out_string = NoOut
  /\ written = <<>>
  /\ nread = 0
  /\ ncalls = 0

\* read<T>(); field is the position, among the fields written, of the field
\* this read is meant to return (0: none)
DoRead(T, field) ==
  LET r == Deserializer_read(des, buffer, T)
  IN  /\ des' = r.self
      /\ ret' = r.ret
      /\ call' = Call("read", T, field, <<>>)
      /\ UNCHANGED <<buffer, ser, refs, out_string>>

Des_skip ==
  \E T \in Types :
    LET r == Deserializer_skip(des, T)
    IN  /\ des' = r.self
        /\ ret' = r.ret
        /\ call' = Call("Deserializer::skip", T, 0, <<>>)
        /\ UNCHANGED <<buffer, ser, refs, out_string, written, nread>>

Des_read ==
  \E T \in Types : DoRead(T, 0) /\ UNCHANGED <<written, nread>>

Des_readEnum ==
  \E E \in Enums, f \in Predicates :
  \E beyond \in BeyondRead(sizeof(underlying_type(E))) :
    LET r == Deserializer_readEnum(des, buffer, E, f, beyond)
    IN  /\ des' = r.self
        /\ ret' = r.ret
        /\ call' = CallF("readEnum", underlying_type(E), 0, f)
        /\ UNCHANGED <<buffer, ser, refs, out_string, written, nread>>

\* readStr<ST>(in_maxStringSize, out); beyond is drawn only by a call that
\* reads outside the buffer
DoReadStr(ST, in_maxStringSize, out, beyond) ==
  LET r == Deserializer_readStr(des, buffer, ST, in_maxStringSize, out, beyond)
  IN  /\ \/ r.ret.oob
         \/ r.ret.overrun
         \/ beyond = 0
      /\ des' = r.self
      /\ ret' = r.ret
      /\ out_string' = IF r.out = NoOut THEN out_string ELSE r.out
      /\ call' = CallF("readStr", ST, in_maxStringSize, out)
      /\ UNCHANGED <<buffer, ser, refs, written, nread>>

\* readStr<ST>(in_maxStringSize) returning a String, kept in out_string
DoReadStrString(ST, in_maxStringSize, beyond) ==
  LET r == Deserializer_readStrString(des, buffer, ST, in_maxStringSize, beyond)
  IN  /\ \/ r.ret.oob
         \/ beyond = 0
      /\ des' = r.self
      /\ ret' = r.ret
      /\ out_string' = IF r.ret.ok THEN r.out ELSE out_string
      /\ call' = CallF("readStrString", ST, in_maxStringSize, "none")
      /\ UNCHANGED <<buffer, ser, refs, written, nread>>

Des_readStr ==
  \E ST \in SizeTypes, out \in Destinations, beyond \in Junk :
  \E in_maxStringSize \in MaxSizes(ST) :
    DoReadStr(ST, in_maxStringSize, out, beyond)

Des_readStrString ==
  \E ST \in SizeTypes, beyond \in Junk :
  \E in_maxStringSize \in MaxSizes(ST) :
    DoReadStrString(ST, in_maxStringSize, beyond)

Des_reset ==
  /\ des' = Deserializer_reset(des)
  /\ ret' = Expected(0)
  /\ call' = Call("Deserializer::reset", "none", 0, <<>>)
  /\ UNCHANGED <<buffer, ser, refs, out_string, written, nread>>

Des_resetStatus ==
  /\ des' = Deserializer_resetStatus(des)
  /\ ret' = Expected(0)
  /\ call' = Call("Deserializer::resetStatus", "none", 0, <<>>)
  /\ UNCHANGED <<buffer, ser, refs, out_string, written, nread>>

Des_fitsInBuffer ==
  \E in_size \in FitSizes :
    /\ ret' = Expected(IF Deserializer_fitsInBuffer(des, in_size) THEN 1 ELSE 0)
    /\ call' = Call("Deserializer::fitsInBuffer", "size_t", in_size, <<>>)
    /\ UNCHANGED <<buffer, ser, des, refs, out_string, written, nread>>

NextDes ==
  \/ Counted /\ Des_skip
  \/ Counted /\ Des_read
  \/ Counted /\ Des_readEnum
  \/ Counted /\ Des_readStr
  \/ Counted /\ Des_readStrString
  \/ Counted /\ Des_reset
  \/ Counted /\ Des_resetStatus
  \/ Counted /\ Des_fitsInBuffer

\* every call sequence on one Deserializer over a received buffer
SpecDes == InitDes /\ [][NextDes]_vars

\* view<Type>() of the handle-returning variant
Des_view ==
  \E T \in Types :
    LET r == Deserializer_view(des, T)
    IN  /\ des' = r.self
        /\ ret' = Handle(r.ref)
        /\ call' = Call("view", T, 0, <<>>)
        /\ UNCHANGED <<buffer, ser, refs, out_string, written, nread>>

\* the handle the caller holds: by whom it was given out
Held(ref, by) == [ref |-> ref, fresh |-> TRUE, field |-> 0, by |-> by]

\* skip<Type>() of the handle-returning variant; the caller keeps the handle
H_skip ==
  \E T \in Types :
    LET r == Serializer_skipHandle(ser, T)
    IN  /\ ser' = r.self
        /\ refs' = Keep(refs, Held(r.ref, "Serializer"))
        /\ ret' = Handle(r.ref)
        /\ call' = Call("skipHandle", T, 0, <<>>)
        /\ UNCHANGED <<buffer, des, out_string, written, nread>>

\* view<Type>() of the handle-returning variant; the caller keeps the handle
H_view ==
  \E T \in Types :
    LET r == Deserializer_view(des, T)
    IN  /\ des' = r.self
        /\ refs' = Keep(refs, Held(r.ref, "Deserializer"))
        /\ ret' = Handle(r.ref)
        /\ call' = Call("view", T, 0, <<>>)
        /\ UNCHANGED <<buffer, ser, out_string, written, nread>>

\* write(in_value) through a handle of the Serializer
H_refWrite ==
  \E k \in DOMAIN refs : \E v \in Values(refs[k].ref.T) :
    LET r == NullableReference_write(refs[k].ref, buffer, v)
    IN  /\ refs[k].by = "Serializer"
        /\ buffer' = r.buf
        /\ ret' = Expected(IF r.ret THEN 1 ELSE 0)
        /\ call' = Call("ref.write", refs[k].ref.T, v, <<k>>)
        /\ UNCHANGED <<ser, des, refs, out_string, written, nread>>

\* read() through a handle of the Serializer or the Deserializer
H_refRead ==
  \E k \in DOMAIN refs :
    /\ ret' = Expected(IF refs[k].by = "Serializer"
                       THEN NullableReference_read(refs[k].ref, buffer)
                       ELSE DeserializerReference_read(refs[k].ref, buffer))
    /\ call' = Call("ref.read", refs[k].ref.T, 0, <<k>>)
    /\ UNCHANGED <<buffer, ser, des, refs, out_string, written, nread>>

NextHandle ==
  \/ Counted /\ H_skip
  \/ Counted /\ H_view
  \/ Counted /\ H_refWrite
  \/ Counted /\ H_refRead

\* every call sequence on a Serializer and a Deserializer of the
\* handle-returning variant and on the handles they gave out
SpecHandle == Init /\ [][NextHandle]_vars

NextView ==
  \/ NextDes
  \/ Counted /\ Des_view

\* every call sequence on one Deserializer that also offers view<Type>()
SpecView == InitDes /\ [][NextView]_vars

\* ------------------------------------------------------------------------
\* A Serializer and then a Deserializer on one buffer (the sketch's tests:
\* "Test: Serializer" followed by "Test: Deserializer")
\* ------------------------------------------------------------------------

\* the calls made on the Deserializer
DesOps ==
  {"Deserializer::skip", "read", "readEnum", "readStr", "readStrString",
   "Deserializer::reset", "Deserializer::resetStatus", "Deserializer::fitsInBuffer"}

\* the Serializer is used until the first call on the Deserializer
SerializerTest == call.op \notin DesOps

\* longest call sequence followed over both objects
MaxUseCalls == 3

NextUse ==
  \/ ncalls < MaxUseCalls /\ SerializerTest /\ NextSer
  \/ ncalls < MaxUseCalls /\ NextDes

\* every call sequence on a Serializer followed by every call sequence on a
\* Deserializer over the buffer the Serializer has filled
SpecUse == Init /\ [][NextUse]_vars

\* ------------------------------------------------------------------------
\* Writing a message and reading it back (the sketch's setup())
\* ------------------------------------------------------------------------

\* most fields of a message
MaxFields == 3

\* a field of the message: its type, its value, and whether a value was stored
Field(T, v, set) == [T |-> T, v |-> v, set |-> set]

\* the Serializer is used until the first read of the Deserializer
Writing == call.op # "read"

RT_write ==
  /\ Writing
  /\ \E T \in Types : \E v \in Values(T) :
       /\ DoWrite(T, v)
       /\ Len(written) < MaxFields \/ ~ret'.ok
       /\ written' = IF ret'.ok THEN Append(written, Field(T, v, TRUE)) ELSE written
  /\ UNCHANGED <<nread, ncalls>>

RT_skip ==
  /\ Writing
  /\ \E T \in Types :
       /\ DoSkip(T)
       /\ Len(written) < MaxFields \/ ~ret'.ok
       /\ written' = IF ret'.ok THEN Append(written, Field(T, 0, FALSE)) ELSE written
  /\ UNCHANGED <<nread, ncalls>>

RT_refWrite ==
  /\ Writing
  /\ \E k \in DOMAIN refs : \E v \in Values(refs[k].ref.T) :
       /\ DoRefWrite(k, v)
       /\ written' = [written EXCEPT ![refs[k].field] = Field(refs[k].ref.T, v, TRUE)]
  /\ UNCHANGED <<nread, ncalls>>

\* the Deserializer reads the next field with the type it was written with
RT_read ==
  /\ nread < Len(written)
  /\ DoRead(written[nread + 1].T, nread + 1)
  /\ nread' = nread + 1
  /\ UNCHANGED <<written, ncalls>>

\* a further read once every field has been read
RT_readFurther ==
  /\ nread = Len(written)
  /\ \E T \in Types : DoRead(T, 0)
  /\ UNCHANGED <<written, nread, ncalls>>

NextRT ==
  \/ RT_write
  \/ RT_skip
  \/ RT_refWrite
  \/ RT_read
  \/ RT_readFurther

\* a Serializer fills the buffer, then a Deserializer over the same buffer
\* reads the fields in the order written
SpecRT == Init /\ [][NextRT]_vars

\* ------------------------------------------------------------------------
\* Writing Strings and reading them back (the String tests of the sketch)
\* ------------------------------------------------------------------------

\* the chars of "HalvoeT"
Halvoe == <<72, 97, 108, 118, 111, 101, 84>>

\* String arguments: "", "Ha", "Halvoe", "HalvoeT", and a String of two more
\* chars than a uint8_t counts
StringObjects ==
  { SubSeq(Halvoe, 1, 0), SubSeq(Halvoe, 1, 2), SubSeq(Halvoe, 1, 6), Halvoe,
    [i \in 1 .. (TypeMod("uint8_t") + 2) |-> Halvoe[1 + (i % 2)]] }

\* the lengths of the Strings that fit a buffer
StringLengths == {Len(s) : s \in StringObjects} \cap (0 .. tc_bufferSize)

\* in_maxStringSize arguments: inString.length() and inString.length() + 1
StringMaxSizes == StringLengths \cup {n + 1 : n \in StringLengths}

\* a String stored by writeStr<ST>(s)
StrField(ST, s) == [T |-> ST, s |-> s]

\* longest call sequence followed in the String tests
MaxStrCalls == 3

Str_writeStr ==
  /\ SerializerTest
  /\ \E ST \in SizeTypes, s \in StringObjects :
       LET r == Serializer_writeStrString(ser, buffer, ST, s)
       IN  /\ ser' = r.self
           /\ buffer' = r.buf
           /\ ret' = r.ret
           /\ call' = Call("writeStrString", ST, Len(s), s)
           /\ written' = IF r.ret.ok THEN Append(written, StrField(ST, s)) ELSE written
           /\ UNCHANGED <<des, refs, out_string, nread>>

Str_readStr ==
  \E ST \in SizeTypes, beyond \in Junk, in_maxStringSize \in StringMaxSizes :
    DoReadStr(ST, in_maxStringSize, "array", beyond)

Str_readStrString ==
  \E ST \in SizeTypes, beyond \in Junk, in_maxStringSize \in StringMaxSizes :
    DoReadStrString(ST, in_maxStringSize, beyond)

NextStr ==
  \/ ncalls < MaxStrCalls /\ Counted /\ Str_writeStr
  \/ ncalls < MaxStrCalls /\ Counted /\ Str_readStr
  \/ ncalls < MaxStrCalls /\ Counted /\ Str_readStrString
  \/ ncalls < MaxStrCalls /\ Counted /\ Des_reset

\* Strings are written by a Serializer and read back by a Deserializer over
\* the same buffer
SpecStr == Init /\ [][NextStr]_vars

\* ------------------------------------------------------------------------
\* Properties
\* ------------------------------------------------------------------------

WriteOps == {"write", "writeEnum", "writeStr"}

\* C1: a write<T>, writeEnum or writeStr that returns an error leaves
\* getBytesWritten() and every byte of the buffer as they were before the call.
C1_NoPartialWrite ==
  [][ (call'.op \in WriteOps /\ ReturnedError(ret'))
        => /\ getBytesWritten(ser') = getBytesWritten(ser)
           /\ \A i \in Indices : buffer'[i] = buffer[i] ]_vars

\* a writeStr was refused after earlier fields had been written
C1_Witness ==
  /\ call.op = "writeStr"
  /\ ReturnedError(ret)
  /\ ret.err = "writeStringOutOfRange"
  /\ ser.m_cursor > 0

\* C2: the Serializer's cursor stays within 0..capacity, so that
\* getBytesWritten() + getBytesLeft() = capacity and getBytesLeft() does not
\* underflow.
C2_SerializerCursorInRange ==
  /\ ser.m_cursor \in 0 .. tc_bufferSize
  /\ getBytesWritten(ser) + getBytesLeft(ser) = tc_bufferSize
  /\ getBytesLeft(ser) <= tc_bufferSize

\* the buffer is full and a further write has been refused
C2_Witness ==
  /\ ser.m_cursor = tc_bufferSize
  /\ call.op \in WriteOps
  /\ ReturnedError(ret)

\* C3: the Deserializer's cursor stays within 0..capacity after every call
\* sequence, for every buffer content, predicate and in_maxStringSize.
C3_DeserializerCursorInRange == des.m_cursor \in 0 .. tc_bufferSize

\* C4: the fields a Serializer stored from cursor 0 on, by write<T>(v) or by
\* skip<T>() and reference.write(v), are returned by read<T>() in the order
\* written, and a further read<T>() that does not fit fails with readOutOfRange.
C4_RoundTrip ==
  [][ /\ (call'.op = "read" /\ call'.v > 0 /\ written'[call'.v].set)
           => /\ ret'.ok
              /\ call'.T = written'[call'.v].T
              /\ ret'.val = written'[call'.v].v
      /\ (call'.op = "read" /\ call'.v = 0
            /\ des.m_cursor + sizeof(call'.T) > tc_bufferSize)
           => /\ ReturnedError(ret')
              /\ ret'.err = "readOutOfRange" ]_vars

\* the sketch: uint8_t 8, a uint16_t slot patched to 1024, uint32_t 32 were
\* read back and the fourth read, of a uint32_t, was refused
C4_Witness ==
  /\ written = <<Field("uint8_t", 8, TRUE), Field("uint16_t", 1024, TRUE),
                 Field("uint32_t", 32, TRUE)>>
  /\ refs # <<>>
  /\ nread = 3
  /\ call = Call("read", "uint32_t", 0, <<>>)
  /\ ret = Unexpected("readOutOfRange")

\* the bytes of the slot a handle is bound to
Slot(r) == r.ref.m_element .. (r.ref.m_element + sizeof(r.ref.T) - 1)

\* C5: reference.write(v) on a handle from a successful skip<T>() at offset p
\* stores the bytes of v in [p, p + sizeof(T)), changes no other byte and leaves
\* the Serializer's cursor and status alone (so the slot holds the last value
\* written through the handle), and the writes and skips made after that
\* skip do not change the slot.
C5_DeferredPatch ==
  [][ /\ call'.op = "ref.write"
           => LET r == refs[call'.s[1]]
              IN  /\ \A i \in Indices :
                       buffer'[i] = IF i \in Slot(r)
                                    THEN Bytes(call'.v, sizeof(r.ref.T))[i - r.ref.m_element]
                                    ELSE buffer[i]
                  /\ ser' = ser
      /\ call'.op \in WriteOps \cup {"skip"}
           => \A k \in DOMAIN refs :
                refs[k].fresh => \A i \in Slot(refs[k]) : buffer'[i] = buffer[i] ]_vars

\* a slot was patched after a later field had been written behind it
C5_Witness ==
  /\ call.op = "ref.write"
  /\ refs[call.s[1]].fresh
  /\ ser.m_cursor > refs[call.s[1]].ref.m_element + sizeof(refs[call.s[1]].ref.T)
  /\ \E i \in Slot(refs[call.s[1]]) : buffer[i] # 0 /\ buffer[i] # 85

StrOps == {"readStr", "readStrString"}

\* C6: a successful readStr advances the cursor by sizeof(SizeT) plus the
\* length declared in the prefix (stated here for strings whose declared
\* payload lies inside the buffer).
C6_AdvanceByDeclaredLength ==
  [][ LET k == sizeof(call'.T)
          declared == Load(buffer, des.m_cursor, k, 0)
      IN  (/\ call'.op \in StrOps
           /\ ret'.ok
           /\ des.m_cursor + k + declared <= tc_bufferSize)
            => des'.m_cursor = des.m_cursor + k + declared ]_vars

\* C7: a successful readStr<SizeT>(maxSize, out) with declared length L returns
\* n = L when L < maxSize and n = maxSize - 1 otherwise, out[0..n) holds the
\* first n payload bytes and out[n] the terminator.
C7_TruncationIntoArray ==
  [][ LET k == sizeof(call'.T)
          L == Load(buffer, des.m_cursor, k, 0)
          n == ret'.val
      IN  (call'.op = "readStr" /\ ret'.ok)
            => /\ n = IF L < call'.v THEN L ELSE call'.v - 1
               /\ out_string'.nul = n
               /\ ~out_string'.over
               /\ Len(out_string'.bytes) = IF n <= tc_bufferSize THEN n
                                           ELSE tc_bufferSize + 1
               /\ \A i \in 1 .. Len(out_string'.bytes) :
                    (des.m_cursor + k + i - 1) \in Indices
                      => out_string'.bytes[i] = buffer[des.m_cursor + k + i - 1] ]_vars

\* a string of declared length 5 was read with in_maxStringSize 3: 2 chars
C7_Witness ==
  /\ call.op = "readStr"
  /\ call.v = 3
  /\ ret.ok
  /\ ret.val = 2
  /\ out_string = Out(<<72, 97>>, 2, FALSE)

\* C8: fitsInBuffer(size) is true exactly when cursor + size <= capacity,
\* the sum taken without wrap-around.
C8_FitsWithoutWrap ==
  /\ call.op = "Serializer::fitsInBuffer"
       => (ret.val = 1 <=> ser.m_cursor + call.v <= tc_bufferSize)
  /\ call.op = "Deserializer::fitsInBuffer"
       => (ret.val = 1 <=> des.m_cursor + call.v <= tc_bufferSize)

\* C9: readEnum with a predicate, called with fewer than sizeof(U) bytes left,
\* returns readOutOfRange (so no enum value) and leaves the cursor unchanged
\* (stated here for a cursor that has not left the buffer).
C9_ReadEnumOutOfRange ==
  [][ (/\ call'.op = "readEnum"
       /\ call'.f # "nullptr"
       /\ des.m_cursor <= tc_bufferSize
       /\ des.m_cursor + sizeof(call'.T) > tc_bufferSize)
        => /\ ReturnedError(ret')
           /\ ret'.err = "readOutOfRange"
           /\ des'.m_cursor = des.m_cursor ]_vars

\* C10: a readEnum without predicate fails with readIsEnumFunIsNullptr, one
\* whose predicate rejects the decoded value fails with readIsEnumFunFalse,
\* and a readEnum that fails leaves the cursor where it was.
C10_ReadEnumValidation ==
  [][ call'.op = "readEnum"
        => /\ call'.f = "nullptr"
                => ReturnedError(ret') /\ ret'.err = "readIsEnumFunIsNullptr"
           /\ (/\ call'.f # "nullptr"
               /\ des.m_cursor + sizeof(call'.T) <= tc_bufferSize
               /\ ~fun_isEnumValue(call'.f, Load(buffer, des.m_cursor, sizeof(call'.T), 0)))
                => ReturnedError(ret') /\ ret'.err = "readIsEnumFunFalse"
           /\ ReturnedError(ret') => des'.m_cursor = des.m_cursor ]_vars

\* a value between two fields was rejected by the predicate
C10_Witness ==
  /\ call.op = "readEnum"
  /\ ret = Unexpected("readIsEnumFunFalse")
  /\ des.m_cursor > 0
  /\ des.m_cursor < tc_bufferSize

\* C11: a successful call advances the cursor by exactly its byte size:
\* Serializer skip<T> and write<T> by sizeof(T), writeEnum by the size of the
\* underlying type, writeStr<SizeT>(s, n) by sizeof(SizeT) + n, Deserializer
\* skip<T> and read<T> by sizeof(T); so no call of the Serializer but reset()
\* and no read<T> or skip<T> of the Deserializer moves the cursor backwards.
C11_ExactAdvance ==
  [][ /\ (call'.op \in {"skip", "write", "writeEnum"} /\ ret'.ok)
           => ser'.m_cursor = ser.m_cursor + sizeof(call'.T)
      /\ (call'.op = "writeStr" /\ ret'.ok)
           => ser'.m_cursor = ser.m_cursor + sizeof(call'.T) + call'.v
      /\ (call'.op \in {"Deserializer::skip", "read"} /\ ret'.ok)
           => des'.m_cursor = des.m_cursor + sizeof(call'.T)
      /\ call'.op # "reset" => ser'.m_cursor >= ser.m_cursor
      /\ call'.op \in {"Deserializer::skip", "read"}
           => des'.m_cursor >= des.m_cursor ]_vars

\* a string of 2 chars behind a uint8_t prefix was written (3 bytes) and a
\* Deserializer::skip<uint16_t> was then made on the buffer
C11_Witness ==
  /\ call.op = "Deserializer::skip"
  /\ ret.ok
  /\ des.m_cursor = 2
  /\ ser.m_cursor = 3

\* C12: a Deserializer skip<T>, read<T>, view<T> or readStr that returns an
\* error (or a null handle) leaves the cursor unchanged and stores nothing in
\* the caller's destination; skip, read and view fail exactly when
\* cursor + sizeof(T) > capacity.
C12_AllOrNothingReads ==
  [][ /\ (/\ call'.op \in {"Deserializer::skip", "read", "view", "readStr",
                           "readStrString"}
          /\ ReturnedError(ret'))
           => /\ des'.m_cursor = des.m_cursor
              /\ out_string' = out_string
      /\ call'.op \in {"Deserializer::skip", "read", "view"}
           => (ReturnedError(ret') <=> des.m_cursor + sizeof(call'.T) > tc_bufferSize)
      /\ (call'.op = "view" /\ ReturnedError(ret'))
           => des'.m_status = "viewOutOfRange" ]_vars

\* a readStr was refused after an earlier readStr had filled the destination
C12_Witness ==
  /\ call.op = "readStr"
  /\ ret = Unexpected("readStringOutOfRange")
  /\ out_string.bytes # <<>>
  /\ des.m_cursor > 0

\* C13: a successful writeStr<SizeT>(s, n) at cursor c stores n as a SizeT in
\* [c, c + sizeof(SizeT)) and the n bytes of s behind it, without terminator;
\* it succeeds exactly when c + sizeof(SizeT) + n <= capacity and otherwise
\* fails with writeStringOutOfRange.
C13_WriteStrWireFormat ==
  [][ call'.op = "writeStr"
        => LET c == ser.m_cursor
               k == sizeof(call'.T)
               n == call'.v
           IN  /\ ret'.ok <=> c + k + n <= tc_bufferSize
               /\ ret'.ok
                    => /\ Load(buffer', c, k, 0) = n
                       /\ \A i \in 0 .. (n - 1) :
                            buffer'[c + k + i] = SrcByte(call'.s, i, 0)
               /\ ~ret'.ok
                    => ReturnedError(ret') /\ ret'.err = "writeStringOutOfRange" ]_vars

\* C14: writeStr<SizeT>(String s) returns an error or stores a prefix equal to
\* s.length() followed by all s.length() bytes of s; it never succeeds with a
\* shorter prefix or payload, also not when s.length() exceeds what SizeT holds.
C14_NoSilentTruncation ==
  [][ (call'.op = "writeStrString" /\ ret'.ok)
        => LET c == ser.m_cursor
               k == sizeof(call'.T)
               s == call'.s
           IN  /\ Load(buffer', c, k, 0) = Len(s)
               /\ ser'.m_cursor = c + k + Len(s)
               /\ \A i \in 1 .. Len(s) :
                    c + k + i - 1 \in Indices /\ buffer'[c + k + i - 1] = s[i] ]_vars

\* C15: a successful skip<T>() changes no byte of the buffer, and a successful
\* write<T>, writeEnum or writeStr at cursor c of total size k changes only
\* bytes in [c, c + k): the bytes below c and the bytes from c + k on keep
\* their values.
C15_SerializerFrame ==
  [][ /\ (call'.op = "skip" /\ ret'.ok)
           => \A i \in Indices : buffer'[i] = buffer[i]
      /\ (call'.op \in WriteOps /\ ret'.ok)
           => LET c == ser.m_cursor
                  k == IF call'.op = "writeStr"
                       THEN sizeof(call'.T) + call'.v
                       ELSE sizeof(call'.T)
              IN  \A i \in Indices :
                    (i < c \/ i >= c + k) => buffer'[i] = buffer[i] ]_vars

\* a string of 2 chars was written behind a uint8_t field, on a buffer whose
\* unwritten bytes are not zero
C15_Witness ==
  /\ call.op = "writeStr"
  /\ ret.ok
  /\ call.v = 2
  /\ ser.m_cursor = 4
  /\ buffer[0] = 8
  /\ buffer[4] = 85

\* the calls that clear the status
SerResets == {"reset", "resetStatus"}

DesResets == {"Deserializer::reset", "Deserializer::resetStatus"}

\* C16: getStatus() is success as long as no call has returned an error since
\* construction or the last reset() / resetStatus(), and is otherwise the error
\* of the most recent failing call: a call that returns an error sets the
\* status to that error, reset() and resetStatus() set it to success, and a
\* call that returns a value leaves it as it was (stated for a Deserializer
\* whose cursor has not left the buffer).
C16_StickyStatus ==
  [][ /\ (call'.op \in DesOps /\ des.m_cursor <= tc_bufferSize)
           => /\ ReturnedError(ret') => des'.m_status = ret'.err
              /\ call'.op \in DesResets => des'.m_status = "success"
              /\ (ret'.ok /\ call'.op \notin DesResets)
                   => des'.m_status = des.m_status
              /\ ser'.m_status = ser.m_status
      /\ call'.op \notin DesOps
           => /\ ReturnedError(ret') => ser'.m_status = ret'.err
              /\ call'.op \in SerResets => ser'.m_status = "success"
              /\ (ret'.ok /\ call'.op \notin SerResets)
                   => ser'.m_status = ser.m_status
              /\ des'.m_status = des.m_status ]_vars

\* C17: reset() of a Serializer or a Deserializer sets the cursor to 0 and the
\* status to success and changes no byte of the buffer, and the next
\* successful write<T> or read<T> works at offset 0; resetStatus() sets the
\* status to success and leaves cursor and buffer alone.
C17_Reset ==
  [][ /\ call'.op = "reset"
           => /\ ser' = [m_cursor |-> 0, m_status |-> "success"]
              /\ buffer' = buffer
      /\ call'.op = "Deserializer::reset"
           => /\ des' = [m_cursor |-> 0, m_status |-> "success"]
              /\ buffer' = buffer
      /\ call'.op = "resetStatus"
           => /\ ser' = [m_cursor |-> ser.m_cursor, m_status |-> "success"]
              /\ buffer' = buffer
      /\ call'.op = "Deserializer::resetStatus"
           => /\ des' = [m_cursor |-> des.m_cursor, m_status |-> "success"]
              /\ buffer' = buffer
      /\ (call.op = "reset" /\ call'.op = "write" /\ ret'.ok)
           => /\ ser'.m_cursor = sizeof(call'.T)
              /\ Load(buffer', 0, sizeof(call'.T), 0) = call'.v
      /\ (call.op = "Deserializer::reset" /\ call'.op = "read" /\ ret'.ok)
           => /\ des'.m_cursor = sizeof(call'.T)
              /\ ret'.val = Load(buffer, 0, sizeof(call'.T), 0) ]_vars

\* a Serializer that had written a uint8_t field was reset by its third call:
\* the field is still in the buffer
C17_Witness ==
  /\ call.op = "reset"
  /\ ncalls = 3
  /\ ser.m_cursor = 0
  /\ ser.m_status = "success"
  /\ buffer[0] = 8
  /\ buffer[1] = 85

\* C18: in the handle-returning variant a skip<T>() or view<T>() with
\* cursor + sizeof(T) > capacity returns a null reference and leaves the cursor
\* where it was, and otherwise a reference to the slot at the cursor; write(v)
\* on a null reference returns false and changes no byte, read() on it
\* returns 0, and write(v) on a reference from a successful skip returns true.
C18_NullHandle ==
  [][ /\ call'.op = "skipHandle"
           => LET h == refs'[Len(refs')].ref
              IN  /\ NullableReference_isNull(h)
                       <=> ser.m_cursor + sizeof(call'.T) > tc_bufferSize
                  /\ NullableReference_isNull(h) => ser'.m_cursor = ser.m_cursor
                  /\ ~NullableReference_isNull(h)
                       => /\ h.m_element = ser.m_cursor
                          /\ h.m_element + sizeof(h.T) <= tc_bufferSize
      /\ call'.op = "view"
           => LET h == refs'[Len(refs')].ref
              IN  /\ h.isNull <=> des.m_cursor + sizeof(call'.T) > tc_bufferSize
                  /\ h.isNull => des'.m_cursor = des.m_cursor
                  /\ ~h.isNull
                       => /\ h.m_element = des.m_cursor
                          /\ h.m_element + sizeof(h.T) <= tc_bufferSize
      /\ call'.op = "ref.write"
           => LET h == refs[call'.s[1]].ref
              IN  IF h.isNull
                  THEN ret'.val = 0 /\ buffer' = buffer
                  ELSE ret'.val = 1
      /\ (call'.op = "ref.read" /\ refs[call'.s[1]].ref.isNull)
           => ret'.val = 0 ]_vars

\* a write was made through the null reference of a refused skip, on a buffer
\* that holds no zero byte
C18_Witness ==
  /\ call.op = "ref.write"
  /\ refs[call.s[1]].ref.isNull
  /\ ret.val = 0
  /\ ser.m_status = "writeOutOfRange"
  /\ buffer[0] = 85

\* C19: a successful readStr<SizeT>(maxSize) returning a String, with declared
\* length L, returns the first min(L, maxSize) payload bytes: all L of them
\* when L <= maxSize and exactly maxSize when L > maxSize (stated here for
\* maxSize >= 1 and payloads that lie inside the buffer).
C19_TruncationIntoString ==
  [][ LET k == sizeof(call'.T)
          L == Load(buffer, des.m_cursor, k, 0)
          n == IF L <= call'.v THEN L ELSE call'.v
      IN  (/\ call'.op = "readStrString"
           /\ ret'.ok
           /\ call'.v >= 1
           /\ des.m_cursor + k + n <= tc_bufferSize)
            => /\ Len(out_string'.bytes) = n
               /\ \A i \in 1 .. n :
                    out_string'.bytes[i] = buffer[des.m_cursor + k + i - 1] ]_vars

\* C20: when writeStr<SizeT>(s) succeeds at cursor 0 for a String s of length
\* n, a Deserializer at cursor 0 over the same buffer reads it back in full:
\* readStr<SizeT>(n + 1, out) returns n and fills out with the n bytes of s and a
\* terminator, readStr<SizeT>(n) returning a String yields s, and both leave
\* the cursor at sizeof(SizeT) + n (stated here for lengths SizeT can hold).
C20_StringRoundTrip ==
  [][ (/\ call'.op \in StrOps
       /\ des.m_cursor = 0
       /\ written # <<>>)
        => LET s == written[1].s
               n == Len(s)
               k == sizeof(call'.T)
           IN  /\ (/\ call'.op = "readStr"
                   /\ call'.T = written[1].T
                   /\ n < TypeMod(call'.T)
                   /\ call'.v = n + 1)
                    => /\ ret'.ok
                       /\ ret'.val = n
                       /\ out_string' = Out(s, n, FALSE)
                       /\ des'.m_cursor = k + n
               /\ (/\ call'.op = "readStrString"
                   /\ call'.T = written[1].T
                   /\ n < TypeMod(call'.T)
                   /\ call'.v = n)
                    => /\ ret'.ok
                       /\ out_string'.bytes = s
                       /\ des'.m_cursor = k + n ]_vars

\* C21: no call on a Serializer or on one of its handles, whatever its
\* arguments (in_size values that make cursor + sizeof(SizeT) + in_size wrap
\* included), stores a byte at an index >= capacity.
C21_SerializerMemorySafety ==
  [][ /\ call'.op \in {"skip", "write", "writeEnum", "writeStr", "ref.write"}
           => ~ret'.overrun
      /\ (call'.op = "writeStr" /\ ~ReturnedError(ret'))
           => ser.m_cursor + sizeof(call'.T) + call'.v <= tc_bufferSize ]_vars

\* C22: for every maxSize (0 included), declared length and cursor, a readStr
\* that passes its checks reads source bytes only at indices < capacity,
\* copies at most maxSize bytes, and readStr<SizeT>(maxSize, out) stores only
\* into out[0 .. maxSize - 1] (the terminator included).
C22_ReadStrMemorySafety ==
  [][ LET k == sizeof(call'.T)
      IN  /\ (call'.op = "readStr" /\ ~ReturnedError(ret'))
               => LET size == out_string'.nul
                  IN  /\ size < call'.v
                      /\ des.m_cursor + k + size <= tc_bufferSize
          /\ (call'.op = "readStrString" /\ ret'.ok)
               => /\ ret'.val <= call'.v
                  /\ des.m_cursor + k + ret'.val <= tc_bufferSize ]_vars

\* C23: once the range check of the whole string has passed the transfer of
\* the size prefix cannot fail: no writeStr returns writeStringSizeOutOfRange
\* and no readStr returns readStringSizeOutOfRange.
C23_PrefixNeverFails ==
  /\ ret.err # "writeStringSizeOutOfRange"
  /\ ret.err # "readStringSizeOutOfRange"

====
